---- MODULE Spec2Model ----
(***************************************************************************)
(* Model of rtlive/preprocessing.py: get_holidays, predict_testcounts and  *)
(* predict_testcounts_all_regions.                                         *)
(*                                                                         *)
(* Dates are day numbers 0, 1, 2, ...; the calendar is shrunk to YearLen   *)
(* days per year, so Timestamp.year is d \div YearLen.  A series is a      *)
(* sequence of rows [date, val]; val is NaN (missing) or Num(v).           *)
(* Prophet and the holidays package are external: the forecast yhat is any *)
(* function of the dates into Yhat, the holiday source is a fixed table.   *)
(***************************************************************************)
EXTENDS Integers, Sequences, FiniteSets, TLC

VARIABLES gh, pt, ar

vars == <<gh, pt, ar>>

\* ------------------------------------------------------------ bounds
YearLen == 2
MaxDate == 4
MaxSel == 2
MaxLen == 3
MaxExtra == 3

\* ------------------------------------------------- program constants
\* `sum(~new_tests_nans) > 10`
MinTrain == 10
\* pandas.Timestamp("2020-03-15") on the model's day scale
GlobalFloor == 1

\* ------------------------------------------------------------ values
NaN == <<>>
Num(v) == <<v>>
isnan(x) == x = NaN

None == [kind |-> "none", codes |-> <<>>]
Str(s) == [kind |-> "str", codes |-> <<s>>]
List(l) == [kind |-> "list", codes |-> l]

Range(s) == {s[i] : i \in DOMAIN s}

SeqsUpTo(S, n) == UNION {[1..k -> S] : k \in 0..n}

\* Timestamp.year on the shrunk calendar
YearOf(d) == d \div YearLen

Dates == 0..MaxDate
AllYears == {YearOf(d) : d \in Dates}
\* the last day a series or a table of the model reaches
LastDay == IF MaxDate > MinTrain + MaxExtra THEN MaxDate ELSE MinTrain + MaxExtra
\* every day of every year the model's dates touch
AllDates == 0..((LastDay \div YearLen + 1) * YearLen - 1)

\* --------------------------------------------- external: iso3166, holidays
CountryNames == {"US", "CA", "AQ", "??"}

\* iso3166.countries.get(country).alpha3; "" when the lookup raises KeyError
Alpha3(country) ==
  CASE country = "US" -> "USA"
    [] country = "CA" -> "CAN"
    [] country = "AQ" -> "ATA"
    [] OTHER -> ""

\* hasattr(holidays, country)
HasHolidayClass(c3) == c3 \in {"USA", "CAN"}

\* hasattr(country_cls, "STATES")
HasStates(c3) == c3 = "USA"

\* country_cls.STATES (only read when HasStates) and country_cls.PROVINCES,
\* in the order the package lists them
STATES(c3) == IF c3 = "USA" THEN <<"CA", "NY">> ELSE <<>>
PROVINCES(c3) == IF c3 = "CAN" THEN <<"ON", "QC">> ELSE <<>>

SubCodes == {"NY", "CA", "ON", "ZZ"}

DatesIn(years) == {d \in AllDates : YearOf(d) \in years}

\* country_cls(years=years): New Year's Day on the first day of each year
NationalCal(c3, years) ==
  [d \in {d \in DatesIn(years) : d % YearLen = 0} |-> "New Year's Day"]

\* the entries a subdivision adds to, or renames in, the national calendar
SubOnly(c3, sub, years) ==
  CASE c3 = "USA" /\ sub = "NY" ->
         [d \in {d \in DatesIn(years) : d % YearLen = 1} |-> "Lincoln's Birthday"]
    [] c3 = "USA" /\ sub = "CA" ->
         [d \in {d \in DatesIn(years) : d % YearLen = 0} |-> "New Year's Day (CA)"]
    [] c3 = "CAN" /\ sub = "ON" ->
         [d \in {d \in DatesIn(years) : d % YearLen = 1} |-> "Family Day"]
    [] OTHER -> <<>>

\* dict.update: last write wins
Update(cal, other) ==
  [d \in (DOMAIN cal) \union (DOMAIN other) |->
     IF d \in DOMAIN other THEN other[d] ELSE cal[d]]

\* country_cls(years=years, prov=sub) / country_cls(years=years, state=sub)
SubCal(c3, sub, years) == Update(NationalCal(c3, years), SubOnly(c3, sub, years))

\* ------------------------------------------------------------ get_holidays
Falsy(region) ==
  \/ region.kind = "none"
  \/ region.kind = "list" /\ region.codes = <<>>
  \/ region.kind = "str" /\ region.codes = <<"">>

IsAll(region) == region.kind = "str" /\ region.codes = <<"all">>

\* numpy.atleast_1d(region): None and a string become one-element arrays
atleast_1d(region) ==
  IF region.kind = "list" THEN region.codes
  ELSE IF region.kind = "none" THEN <<"None">>
  ELSE region.codes

\* lines 53-59
SelectRegions(c3, region) ==
  IF Falsy(region) THEN <<>>
  ELSE IF IsAll(region)
       THEN (IF HasStates(c3) THEN STATES(c3) ELSE PROVINCES(c3))
       ELSE atleast_1d(region)

is_province(c3, sub) == sub \in Range(PROVINCES(c3))

is_state(c3, sub) == HasStates(c3) /\ sub \in Range(STATES(c3))

Ok(cal) == [err |-> "none", cal |-> cal]
Raise(e) == [err |-> e, cal |-> <<>>]

RECURSIVE MergeRegionsSkipUnknown(_, _, _, _, _)
MergeRegionsSkipUnknown(c3, regions, years, i, result) ==
  IF i > Len(regions) THEN Ok(result)
  ELSE IF is_province(c3, regions[i]) \/ is_state(c3, regions[i])
       THEN MergeRegionsSkipUnknown(c3, regions, years, i + 1,
                                    Update(result, SubCal(c3, regions[i], years)))
       ELSE MergeRegionsSkipUnknown(c3, regions, years, i + 1, result)

\* lines 62-72: the loop over the selected regions, from the i-th on
RECURSIVE MergeRegions(_, _, _, _, _)
MergeRegions(c3, regions, years, i, result) ==
  IF i > Len(regions) THEN Ok(result)
  ELSE IF is_province(c3, regions[i]) \/ is_state(c3, regions[i])
       THEN MergeRegions(c3, regions, years, i + 1,
                         Update(result, SubCal(c3, regions[i], years)))
       ELSE Raise("unknown_region")

get_holidays(country, region, years) ==
  LET c3 == Alpha3(country) IN
  IF c3 = "" THEN Raise("country_lookup")
  ELSE IF ~HasHolidayClass(c3) THEN Raise("unknown_country")
  ELSE MergeRegions(c3, SelectRegions(c3, region), years, 1,
                    NationalCal(c3, years))

Selectors ==
  {None, Str("all")} \union {Str(s) : s \in SubCodes}
    \union {List(l) : l \in SeqsUpTo(SubCodes, MaxSel)}

\* ------------------------------------------------------ predict_testcounts
Yhat == {-1, 1}
Vals == {NaN, Num(2)}

Index(tc) == [i \in DOMAIN tc |-> tc[i].date]

\* testcounts.sort_index(): rows in ascending date order (dates are distinct)
RECURSIVE Ascending(_)
Ascending(rows) ==
  IF rows = {} THEN <<>>
  ELSE LET first == CHOOSE r \in rows : \A q \in rows : r.date <= q.date
       IN  <<first>> \o Ascending(rows \ {first})

sort_indexNoSort(tc) == tc
sort_index(tc) == Ascending(Range(tc))

\* lines 132-133: `if not ignore_before: ignore_before = testcounts.index[0]`
DefaultIgnoreBefore(tc, ignore_before) ==
  IF ignore_before = <<>> THEN tc[1].date ELSE ignore_before[1]

\* line 138
MaskFit(tc, ib) == [i \in DOMAIN tc |-> tc[i].date >= ib]

MaskPredictNoFloor(tc, ib, keep_data) ==
  [i \in DOMAIN tc |-> IF keep_data THEN isnan(tc[i].val) ELSE TRUE]
MaskPredictNoKeep(tc, ib, keep_data) ==
  [i \in DOMAIN tc |-> tc[i].date >= ib]
\* lines 139-144
MaskPredict(tc, ib, keep_data) ==
  [i \in DOMAIN tc |->
     IF keep_data THEN tc[i].date >= ib /\ isnan(tc[i].val)
     ELSE tc[i].date >= ib]

\* line 146
YearSet(tc) == {YearOf(tc[1].date), YearOf(tc[Len(tc)].date)}

ConfigErrorNever(region, regional_holidays) == FALSE
\* line 149
ConfigError(region, regional_holidays) ==
  ~IsAll(region) /\ Len(atleast_1d(region)) <= 1 /\ regional_holidays

\* line 155
Regional(region, regional_holidays) ==
  (IsAll(region) \/ Len(atleast_1d(region)) > 1) /\ regional_holidays

\* lines 155-180: [err, all_holidays, holiday_df, lookups]
HolidayTable(country, region, regional_holidays, years) ==
  IF Regional(region, regional_holidays)
  THEN LET all == get_holidays(country, region, years)
           nat == get_holidays(country, None, years)
       IN  IF all.err # "none"
           THEN [err |-> all.err, all_holidays |-> <<>>, holiday_df |-> {},
                 lookups |-> 1]
           ELSE IF nat.err # "none"
           THEN [err |-> nat.err, all_holidays |-> <<>>, holiday_df |-> {},
                 lookups |-> 2]
           ELSE [err |-> "none", all_holidays |-> all.cal,
                 holiday_df |->
                   {[ds |-> d, name |-> all.cal[d],
                     holiday |-> IF d \in DOMAIN nat.cal THEN "national"
                                 ELSE "regional"] : d \in DOMAIN all.cal},
                 lookups |-> 2]
  ELSE LET all == get_holidays(country, None, years)
       IN  IF all.err # "none"
           THEN [err |-> all.err, all_holidays |-> <<>>, holiday_df |-> {},
                 lookups |-> 1]
           ELSE [err |-> "none", all_holidays |-> all.cal,
                 holiday_df |->
                   {[ds |-> d, name |-> all.cal[d], holiday |-> "holiday"] :
                      d \in DOMAIN all.cal},
                 lookups |-> 1]

Max(S) == CHOOSE x \in S : \A y \in S : y <= x

\* numpy.clip(a, a_min, a_max) = minimum(a_max, maximum(a, a_min))
clipNoLower(a, a_min, a_max) == IF a < a_max THEN a ELSE a_max
clip(a, a_min, a_max) ==
  LET lo == IF a > a_min THEN a ELSE a_min
  IN  IF lo < a_max THEN lo ELSE a_max

\* m.predict(df_predict).yhat: a point estimate for every date of the index;
\* every function into Yhat for an index of at most MaxLen dates, and for a
\* longer index the estimates with one level up to GlobalFloor and one after
Forecasts(tc) ==
  IF Len(tc) <= MaxLen THEN [Range(Index(tc)) -> Yhat]
  ELSE {[d \in Range(Index(tc)) |-> IF d <= GlobalFloor THEN a ELSE b] :
          a \in Yhat, b \in Yhat}

\* lines 220-225
Reassemble(tc, mask_predict, yhat) ==
  LET yhat_max == Max(Range(yhat))
  IN  [i \in DOMAIN tc |->
         [date |-> tc[i].date,
          val |-> IF mask_predict[i]
                  THEN Num(clip(yhat[tc[i].date], 0, yhat_max))
                  ELSE tc[i].val]]

\* predict_testcounts as one call: what the steps below do in sequence, with
\* the two outcomes of the external model as arguments
predict_testcounts(tc, country, region, regional_holidays, keep_data, ignore_before, fit_ok, yhat) ==
  LET ib == DefaultIgnoreBefore(tc, ignore_before)
      s == sort_index(tc)
      t == HolidayTable(country, region, regional_holidays, YearSet(s))
      raise(e) == [err |-> e, result |-> <<>>, forecast |-> <<>>,
                   all_holidays |-> <<>>]
  IN  IF ConfigError(region, regional_holidays) THEN raise("config")
      ELSE IF t.err # "none" THEN raise(t.err)
      ELSE IF ~fit_ok THEN raise("fit")
      ELSE [err |-> "none",
            result |-> Reassemble(s, MaskPredict(s, ib, keep_data), yhat),
            forecast |-> yhat, all_holidays |-> t.all_holidays]


GhIdle == [pc |-> "idle"]
ArIdle == [pc |-> "idle"]

\* the frame of a predict_testcounts call; passed and ignore_before_arg are
\* the caller's series and floor as they were when the call was made,
\* testcounts and ignore_before the names the code rebinds
PtFrame(tc, country, region, regional_holidays, keep_data, ignore_before) ==
  [pc |-> "call", passed |-> tc, testcounts |-> tc, country |-> country,
   region |-> region, regional_holidays |-> regional_holidays,
   keep_data |-> keep_data, ignore_before_arg |-> ignore_before,
   ignore_before |-> ignore_before,
   mask_fit |-> <<>>, mask_predict |-> <<>>, years |-> {}, lookups |-> 0,
   all_holidays |-> <<>>, holiday_df |-> {}, fitted |-> FALSE,
   forecast |-> <<>>, result |-> <<>>, err |-> "none"]

PtIdle == [PtFrame(<<>>, "", None, FALSE, FALSE, <<>>) EXCEPT !.pc = "idle"]

InitHolidays ==
  /\ gh \in [pc : {"call"}, country : CountryNames, region : Selectors,
             years : SUBSET AllYears]
  /\ pt = PtIdle
  /\ ar = ArIdle

GhReturn ==
  /\ gh.pc = "call"
  /\ get_holidays(gh.country, gh.region, gh.years).err = "none"
  /\ gh' = [pc |-> "returned", country |-> gh.country, region |-> gh.region,
            years |-> gh.years,
            out |-> get_holidays(gh.country, gh.region, gh.years)]
  /\ UNCHANGED <<pt, ar>>

GhRaise ==
  /\ gh.pc = "call"
  /\ get_holidays(gh.country, gh.region, gh.years).err # "none"
  /\ gh' = [pc |-> "raised", country |-> gh.country, region |-> gh.region,
            years |-> gh.years,
            out |-> get_holidays(gh.country, gh.region, gh.years)]
  /\ UNCHANGED <<pt, ar>>


\* --------------------------------------------- predict_testcounts, by steps
Rows == [date : Dates, val : Vals]

Distinct(tc) == \A i, j \in DOMAIN tc : i # j => tc[i].date # tc[j].date

\* the non-empty series of at most n rows, in any row order
Series(n) == {tc \in UNION {[1..k -> Rows] : k \in 1..n} : Distinct(tc)}

\* no floor, or a floor from day 1 to day MaxLen: before, inside and after a series
IgnoreBefores == {<<>>} \union {<<d>> : d \in 1..MaxLen}

InitPredict ==
  /\ gh = GhIdle
  /\ ar = ArIdle
  /\ \/ \E tc \in Series(MaxLen), keep_data \in BOOLEAN, ib \in IgnoreBefores :
          pt = PtFrame(tc, "US", None, FALSE, keep_data, ib)
     \/ \E tc \in Series(1), country \in CountryNames, region \in Selectors,
           regional_holidays \in BOOLEAN :
          pt = PtFrame(tc, country, region, regional_holidays, TRUE, <<>>)

\* lines 130-147
PtNormalize ==
  /\ pt.pc = "call"
  /\ LET ib == DefaultIgnoreBefore(pt.testcounts, pt.ignore_before)
         tc == sort_index(pt.testcounts)
     IN  pt' = [pt EXCEPT !.pc = "validate",
                          !.ignore_before = <<ib>>,
                          !.testcounts = tc,
                          !.mask_fit = MaskFit(tc, ib),
                          !.mask_predict = MaskPredict(tc, ib, pt.keep_data),
                          !.years = YearSet(tc)]
  /\ UNCHANGED <<gh, ar>>

\* lines 149-153
PtConfigError ==
  /\ pt.pc = "validate"
  /\ ConfigError(pt.region, pt.regional_holidays)
  /\ pt' = [pt EXCEPT !.pc = "raised", !.err = "config"]
  /\ UNCHANGED <<gh, ar>>

\* lines 155-180
PtHolidays ==
  /\ pt.pc = "validate"
  /\ ~ConfigError(pt.region, pt.regional_holidays)
  /\ LET t == HolidayTable(pt.country, pt.region, pt.regional_holidays, pt.years)
     IN  /\ t.err = "none"
         /\ pt' = [pt EXCEPT !.pc = "fit", !.lookups = t.lookups,
                              !.all_holidays = t.all_holidays,
                              !.holiday_df = t.holiday_df]
  /\ UNCHANGED <<gh, ar>>

PtHolidaysRaise ==
  /\ pt.pc = "validate"
  /\ ~ConfigError(pt.region, pt.regional_holidays)
  /\ LET t == HolidayTable(pt.country, pt.region, pt.regional_holidays, pt.years)
     IN  /\ t.err # "none"
         /\ pt' = [pt EXCEPT !.pc = "raised", !.lookups = t.lookups,
                              !.err = t.err]
  /\ UNCHANGED <<gh, ar>>

\* lines 182-210: Prophet is built and fitted on the mask_fit rows
PtFit ==
  /\ pt.pc = "fit"
  /\ pt' = [pt EXCEPT !.pc = "predict", !.fitted = TRUE]
  /\ UNCHANGED <<gh, ar>>

\* line 210: the fit rejects the training data or does not converge
PtFitRaise ==
  /\ pt.pc = "fit"
  /\ pt' = [pt EXCEPT !.pc = "raised", !.err = "fit"]
  /\ UNCHANGED <<gh, ar>>

\* lines 213-227
PtPredict ==
  /\ pt.pc = "predict"
  /\ \E yhat \in Forecasts(pt.testcounts) :
       pt' = [pt EXCEPT !.pc = "returned", !.forecast = yhat,
                        !.result = Reassemble(pt.testcounts, pt.mask_predict, yhat)]
  /\ UNCHANGED <<gh, ar>>


\* --------------------------------------- predict_testcounts_all_regions
\* df.index.levels[0]: the regions, sorted
Regions == <<"NY", "WY">>

\* the tables of the model: a region has the dates 0..L-1, all observed but
\* for a set of dates around the global floor, in date order or with its
\* first two rows swapped
RegionRows(L, missing, swapped) ==
  LET asc == [i \in 1..L |->
                [date |-> i - 1,
                 val |-> IF (i - 1) \in missing THEN NaN ELSE Num(2)]]
  IN  IF swapped
      THEN [i \in 1..L |-> IF i = 1 THEN asc[2] ELSE IF i = 2 THEN asc[1] ELSE asc[i]]
      ELSE asc

RegionTables ==
  {RegionRows(L, missing, swapped) :
     L \in MinTrain..(MinTrain + MaxExtra),
     missing \in SUBSET (0..(GlobalFloor + 1)),
     swapped \in BOOLEAN}

\* line 255
n_train(rows) == Cardinality({i \in DOMAIN rows : ~isnan(rows[i].val)})

EnoughGE(rows) == n_train(rows) >= MinTrain
\* line 256
Enough(rows) == n_train(rows) > MinTrain

\* line 267: the date of the first observed row, in table order
FirstObserved(rows) ==
  rows[CHOOSE i \in DOMAIN rows :
         /\ ~isnan(rows[i].val)
         /\ \A j \in 1..(i - 1) : isnan(rows[j].val)].date

\* lines 265-268
Floor(rows) ==
  IF FirstObserved(rows) > GlobalFloor THEN FirstObserved(rows) ELSE GlobalFloor

\* line 276: the column is created on the first write, missing everywhere else
WriteColumn(predicted, df, region, values) ==
  [has |-> TRUE,
   col |-> [r \in DOMAIN df |->
              IF r = region THEN values
              ELSE IF predicted.has THEN predicted.col[r]
              ELSE [i \in DOMAIN df[r] |-> NaN]]]

Values(tc) == [i \in DOMAIN tc |-> tc[i].val]

ArFrame(df, country, keep_data) ==
  [pc |-> "loop", df |-> df, country |-> country, keep_data |-> keep_data,
   i |-> 1, called |-> {}, results |-> <<>>,
   predicted |-> [has |-> FALSE, col |-> <<>>], err |-> "none"]

InitBatch ==
  /\ gh = GhIdle
  /\ pt = PtIdle
  /\ \E df \in [Range(Regions) -> RegionTables], country \in {"US", "AQ"},
        keep_data \in BOOLEAN :
       ar = ArFrame(df, country, keep_data)

\* the call of lines 262-273 for the current region
ArCall(fit_ok, yhat) ==
  LET region == Regions[ar.i]
      rows == ar.df[region]
  IN  predict_testcounts(rows, ar.country, Str(region), FALSE, ar.keep_data,
                         <<Floor(rows)>>, fit_ok, yhat)

\* lines 277-280
ArSkip ==
  /\ ar.pc = "loop"
  /\ ar.i <= Len(Regions)
  /\ ~Enough(ar.df[Regions[ar.i]])
  /\ ar' = [ar EXCEPT !.i = ar.i + 1]
  /\ UNCHANGED <<gh, pt>>

\* lines 256-276
ArImpute ==
  /\ ar.pc = "loop"
  /\ ar.i <= Len(Regions)
  /\ Enough(ar.df[Regions[ar.i]])
  /\ \E yhat \in Forecasts(ar.df[Regions[ar.i]]) :
       LET region == Regions[ar.i]
           out == ArCall(TRUE, yhat)
       IN  /\ out.err = "none"
           /\ Index(out.result) = Index(ar.df[region])
           /\ ar' = [ar EXCEPT
                       !.i = ar.i + 1,
                       !.called = ar.called \union {region},
                       !.results = [r \in (DOMAIN ar.results) \union {region} |->
                                      IF r = region THEN out ELSE ar.results[r]],
                       !.predicted = WriteColumn(ar.predicted, ar.df, region,
                                                 Values(out.result))]
  /\ UNCHANGED <<gh, pt>>

\* lines 271-273: the call raises, and the batch with it
ArImputeRaise ==
  /\ ar.pc = "loop"
  /\ ar.i <= Len(Regions)
  /\ Enough(ar.df[Regions[ar.i]])
  /\ \E fit_ok \in BOOLEAN, yhat \in Forecasts(ar.df[Regions[ar.i]]) :
       LET out == ArCall(fit_ok, yhat)
       IN  /\ out.err # "none"
           /\ ar' = [ar EXCEPT !.pc = "raised", !.err = out.err,
                               !.called = ar.called \union {Regions[ar.i]}]
  /\ UNCHANGED <<gh, pt>>

\* line 275: numpy.testing.assert_array_equal fails
ArAssertRaise ==
  /\ ar.pc = "loop"
  /\ ar.i <= Len(Regions)
  /\ Enough(ar.df[Regions[ar.i]])
  /\ \E yhat \in Forecasts(ar.df[Regions[ar.i]]) :
       LET region == Regions[ar.i]
           out == ArCall(TRUE, yhat)
       IN  /\ out.err = "none"
           /\ Index(out.result) # Index(ar.df[region])
           /\ ar' = [ar EXCEPT
                       !.pc = "raised", !.err = "assert",
                       !.called = ar.called \union {region},
                       !.results = [r \in (DOMAIN ar.results) \union {region} |->
                                      IF r = region THEN out ELSE ar.results[r]]]
  /\ UNCHANGED <<gh, pt>>

\* line 281, the column exists
ArReturn ==
  /\ ar.pc = "loop"
  /\ ar.i > Len(Regions)
  /\ ar.predicted.has
  /\ ar' = [ar EXCEPT !.pc = "returned"]
  /\ UNCHANGED <<gh, pt>>

\* line 281, no region wrote the column: df["predicted_new_tests"] is a KeyError
ArReturnRaise ==
  /\ ar.pc = "loop"
  /\ ar.i > Len(Regions)
  /\ ~ar.predicted.has
  /\ ar' = [ar EXCEPT !.pc = "raised", !.err = "key"]
  /\ UNCHANGED <<gh, pt>>

\* one of the three functions is called
Init == InitHolidays \/ InitPredict \/ InitBatch

Next ==
  \/ GhReturn
  \/ GhRaise
  \/ ArSkip
  \/ ArImpute
  \/ ArImputeRaise
  \/ ArAssertRaise
  \/ ArReturn
  \/ ArReturnRaise
  \/ PtNormalize
  \/ PtConfigError
  \/ PtHolidays
  \/ PtHolidaysRaise
  \/ PtFit
  \/ PtFitRaise
  \/ PtPredict

Spec == Init /\ [][Next]_vars

\* ------------------------------------------------------------ properties
\* the value a series carries at a date
ValAt(tc, d) == (CHOOSE r \in Range(tc) : r.date = d).val

DateSet(tc) == {tc[i].date : i \in DOMAIN tc}

IsAscending(idx) == \A i, j \in DOMAIN idx : i < j => idx[i] < idx[j]

PtReturned == pt.pc = "returned"

\* the floor a returned call worked with
PtFloor == pt.ignore_before[1]

\* a date of the call whose value the code takes from the model
PtOverwritten(d) ==
  /\ d >= PtFloor
  /\ pt.keep_data => isnan(ValAt(pt.passed, d))

PtYhatMax == Max(Range(pt.forecast))

\* C1 as claimed: every value of the output of a successful predict_testcounts
\* call is a number in [0, max yhat].
C1_AllOutputsWithinModelRange ==
  PtReturned =>
    \A i \in DOMAIN pt.result :
      /\ ~isnan(pt.result[i].val)
      /\ pt.result[i].val[1] >= 0
      /\ pt.result[i].val[1] <= PtYhatMax

\* C1 as amended: every value the call takes from the model (a date >=
\* ignore_before that, with keep_data, is missing in the input) is <= max yhat,
\* is >= 0 when max yhat >= 0, and equals max yhat when every estimate is
\* negative.
C1_WrittenValuesClipped ==
  PtReturned =>
    \A d \in DateSet(pt.passed) :
      PtOverwritten(d) =>
        LET v == ValAt(pt.result, d)
        IN  /\ ~isnan(v)
            /\ v[1] <= PtYhatMax
            /\ PtYhatMax >= 0 => v[1] >= 0
            /\ PtYhatMax < 0 => v[1] = PtYhatMax

C1_Witness ==
  /\ PtReturned
  /\ \E d \in DateSet(pt.passed) :
       /\ PtOverwritten(d)
       /\ pt.forecast[d] < 0
       /\ PtYhatMax > 0
       /\ ValAt(pt.result, d) = Num(0)

\* C2: with keep_data=True every non-missing input value is in the output at
\* its date, and a date whose output differs from its input is >= ignore_before
\* and missing in the input.
C2_KeepDataPreservesObserved ==
  (PtReturned /\ pt.keep_data) =>
    \A d \in DateSet(pt.passed) :
      /\ ~isnan(ValAt(pt.passed, d)) => ValAt(pt.result, d) = ValAt(pt.passed, d)
      /\ ValAt(pt.result, d) # ValAt(pt.passed, d) =>
           (d >= PtFloor /\ isnan(ValAt(pt.passed, d)))

C2_Witness ==
  /\ PtReturned
  /\ pt.keep_data
  /\ \E d, e \in DateSet(pt.passed) :
       /\ d >= PtFloor /\ ~isnan(ValAt(pt.passed, d))
       /\ ValAt(pt.result, d) = ValAt(pt.passed, d)
       /\ e >= PtFloor /\ isnan(ValAt(pt.passed, e))
       /\ ~isnan(ValAt(pt.result, e))

NamesAtMostOneRegion(region) ==
  \/ region.kind = "none"
  \/ region.kind = "str" /\ region.codes # <<"all">>
  \/ region.kind = "list" /\ Len(region.codes) <= 1

\* C5: regional_holidays=True with a selector that is not "all" and names at
\* most one region ends in the configuration error, with no holiday lookup, no
\* fit and no forecast made.
C5_ConfigErrorFirst ==
  (/\ pt.pc \notin {"idle", "call"}
   /\ pt.regional_holidays
   /\ NamesAtMostOneRegion(pt.region)) =>
    /\ pt.pc \in {"validate", "raised"}
    /\ pt.pc = "raised" => pt.err = "config"
    /\ pt.lookups = 0
    /\ ~pt.fitted
    /\ pt.forecast = <<>>
    /\ pt.result = <<>>

C5_Witness ==
  /\ pt.pc = "raised"
  /\ pt.err = "config"
  /\ pt.regional_holidays
  /\ pt.region = List(<<>>)
  /\ ~HasHolidayClass(Alpha3(pt.country))

\* C8 as claimed: the years holidays are fetched for are all the years from the
\* first date's to the last date's, so every national holiday on a date inside
\* the series' span is a row of the regressor table.
C8_YearsSpanSeries ==
  pt.pc \in {"fit", "predict", "returned"} =>
    LET first == pt.testcounts[1].date
        last == pt.testcounts[Len(pt.testcounts)].date
    IN  /\ \A y \in YearOf(first)..YearOf(last) : y \in pt.years
        /\ \A d \in first..last :
             d \in DOMAIN NationalCal(Alpha3(pt.country), AllYears) =>
               \E row \in pt.holiday_df : row.ds = d

\* C9 as claimed: with no ignore_before given, the floor is the earliest date of
\* the series and fit_mask is true at every date.
C9_DefaultFloorIsEarliest ==
  (pt.pc \notin {"idle", "call"} /\ pt.ignore_before_arg = <<>>) =>
    /\ \A d \in DateSet(pt.passed) : PtFloor <= d
    /\ \A i \in DOMAIN pt.mask_fit : pt.mask_fit[i]
Requested(c3, region) ==
  IF region.kind = "none" THEN <<>>
  ELSE IF region = Str("all")
       THEN (IF c3 = "USA" THEN STATES(c3) ELSE PROVINCES(c3))
       ELSE region.codes

Listed(c3, sub) == sub \in Range(PROVINCES(c3)) \union Range(STATES(c3))

\* C6: get_holidays raises the unknown-country error when the resolved code has
\* no holiday class, raises the unknown-region error when a requested
\* subdivision is in neither list of the country, both without a calendar, and
\* otherwise returns the national calendar updated with the calendar of each
\* requested subdivision in turn.
C6_GetHolidaysOutcome ==
  gh.pc \in {"returned", "raised"} =>
    LET c3 == Alpha3(gh.country)
        req == Requested(c3, gh.region)
        nat == NationalCal(c3, gh.years)
    IN  /\ (c3 # "" /\ c3 \notin {"USA", "CAN"}) =>
             (gh.pc = "raised" /\ gh.out.err = "unknown_country"
              /\ gh.out.cal = <<>>)
        /\ (c3 \in {"USA", "CAN"} /\ \E i \in DOMAIN req : ~Listed(c3, req[i])) =>
             (gh.pc = "raised" /\ gh.out.err = "unknown_region"
              /\ gh.out.cal = <<>>)
        /\ (c3 \in {"USA", "CAN"} /\ \A i \in DOMAIN req : Listed(c3, req[i])) =>
             /\ gh.pc = "returned"
             /\ gh.out.err = "none"
             /\ DOMAIN gh.out.cal =
                  (DOMAIN nat) \union
                    UNION {DOMAIN SubCal(c3, req[i], gh.years) : i \in DOMAIN req}
             /\ \A d \in DOMAIN gh.out.cal :
                  LET from == {i \in DOMAIN req :
                                 d \in DOMAIN SubCal(c3, req[i], gh.years)}
                  IN  gh.out.cal[d] =
                        IF from = {} THEN nat[d]
                        ELSE SubCal(c3, req[Max(from)], gh.years)[d]

C6_Witness ==
  /\ gh.pc = "returned"
  /\ gh.country = "US"
  /\ gh.region = List(<<"CA", "NY">>)
  /\ \E d \in DOMAIN gh.out.cal : gh.out.cal[d] = "Lincoln's Birthday"
  /\ \E d \in DOMAIN gh.out.cal : gh.out.cal[d] = "New Year's Day"

Observed(rows) == {i \in DOMAIN rows : rows[i].val # NaN}

EarliestObserved(rows) ==
  CHOOSE d \in {rows[i].date : i \in Observed(rows)} :
    \A i \in Observed(rows) : d <= rows[i].date

\* C10: predict_testcounts leaves the value at every date before ignore_before
\* as it was passed, missing or not, for either keep_data; and in the batch
\* runner a written region's rows before max(global floor, first observed date)
\* carry the table's value in the predicted column.
C10_BeforeFloorUnchanged ==
  /\ PtReturned =>
       \A d \in DateSet(pt.passed) :
         d < (IF pt.ignore_before_arg = <<>> THEN PtFloor
              ELSE pt.ignore_before_arg[1])
           => ValAt(pt.result, d) = ValAt(pt.passed, d)
  /\ ar.pc # "idle" =>
       \A r \in DOMAIN ar.results :
         ar.predicted.has /\ (\E k \in 1..(ar.i - 1) : Regions[k] = r) =>
           \A j \in DOMAIN ar.df[r] :
             (ar.df[r][j].date < GlobalFloor
              \/ ar.df[r][j].date < EarliestObserved(ar.df[r]))
               => ar.predicted.col[r][j] = ar.df[r][j].val

C10_Witness ==
  /\ ar.pc = "returned"
  /\ ~ar.keep_data
  /\ \E r \in DOMAIN ar.results :
       /\ EarliestObserved(ar.df[r]) > GlobalFloor
       /\ \E j, k \in DOMAIN ar.df[r] :
            /\ ar.df[r][j].date < GlobalFloor
            /\ isnan(ar.predicted.col[r][j])
            /\ ar.df[r][k].date >= EarliestObserved(ar.df[r])
            /\ ar.predicted.col[r][k] # ar.df[r][k].val

ManyObserved(rows) == Cardinality(Observed(rows)) > 10

\* C3: predict_testcounts is called for a region exactly when the region has
\* more than 10 observed rows; once the loop is over the result mapping has
\* exactly those regions as keys and the predicted column has no value at a row
\* of any other region.
C3_ImputedIffEnoughData ==
  ar.pc # "idle" =>
    /\ \A r \in ar.called : ManyObserved(ar.df[r])
    /\ \A k \in 1..(ar.i - 1) :
         ManyObserved(ar.df[Regions[k]]) <=> Regions[k] \in ar.called
    /\ ar.i > Len(Regions) =>
         /\ DOMAIN ar.results = {r \in DOMAIN ar.df : ManyObserved(ar.df[r])}
         /\ \A r \in DOMAIN ar.df :
              (~ManyObserved(ar.df[r]) /\ ar.predicted.has) =>
                \A j \in DOMAIN ar.df[r] : isnan(ar.predicted.col[r][j])

C3_Witness ==
  /\ ar.pc = "returned"
  /\ DOMAIN ar.results = {"NY"}
  /\ Cardinality(Observed(ar.df["WY"])) = 10
  /\ Cardinality(Observed(ar.df["NY"])) = 11
  /\ \E j \in DOMAIN ar.df["NY"] :
       isnan(ar.df["NY"][j].val) /\ ~isnan(ar.predicted.col["NY"][j])
  /\ \A j \in DOMAIN ar.df["WY"] : isnan(ar.predicted.col["WY"][j])

\* C7 as claimed: when no region has more than 10 observed rows the batch runner
\* returns normally, with an empty result mapping and no predicted value.
C7_NothingImputedReturns ==
  (/\ ar.pc \in {"returned", "raised"}
   /\ \A r \in DOMAIN ar.df : ~ManyObserved(ar.df[r])) =>
    /\ ar.pc = "returned"
    /\ ar.results = <<>>
    /\ ~ar.predicted.has

====
